---- MODULE Spec2Model ----
(***************************************************************************)
(* Model of src/server/analysis_files/example.rs: the Vector3D value type  *)
(* (magnitude, normalize, dot_product, cross_product, Display), the free   *)
(* function find_longest_vector and the Transformable impl (scale,         *)
(* translate).                                                             *)
(*                                                                         *)
(* The components are f64.  f64 is modelled as a binary floating-point     *)
(* format of the IEEE 754 kind with a reduced significand and exponent     *)
(* range: signed zeros, subnormals, round-to-nearest-even, overflow to     *)
(* infinity, underflow to zero, and NaN.  A finite value is an integer     *)
(* count n of the smallest subnormal (2^-FracBits), with a sign.           *)
(***************************************************************************)
EXTENDS Integers, Sequences, FiniteSets

\* ------------------------------------------------------------------ bounds
\* significand width in bits (53 in f64)
Prec == 3
\* the smallest subnormal is 2^-FracBits (2^-1074 in f64)
FracBits == 2
\* the largest binade: finite magnitudes are m * 2^e, m < 2^Prec, e <= MaxExp
MaxExp == 6
\* longest collection handed to find_longest_vector
MaxLen == 3
\* most scale/translate calls in one run
MaxMut == 2

\* ------------------------------------------------------------------ f64
RECURSIVE Pow2(_)
Pow2(k) == IF k = 0 THEN 1 ELSE 2 * Pow2(k - 1)

Unit == Pow2(FracBits)
MaxN == (Pow2(Prec) - 1) * Pow2(MaxExp)

NaN == [k |-> "nan", neg |-> FALSE, n |-> 0]
Inf(neg) == [k |-> "inf", neg |-> neg, n |-> 0]
Num(neg, n) == [k |-> "num", neg |-> neg, n |-> n]
Zero == Num(FALSE, 0)

IsNaN(a) == a.k = "nan"
IsInf(a) == a.k = "inf"
IsNum(a) == a.k = "num"
IsZero(a) == a.k = "num" /\ a.n = 0

\* the binade of the positive rational num/den (in units): the least e with
\* num/den < 2^(Prec+e), or MaxExp+1 when there is none up to MaxExp
RECURSIVE ExpOf(_, _, _)
ExpOf(num, den, e) ==
    IF e > MaxExp \/ num < den * Pow2(Prec + e) THEN e ELSE ExpOf(num, den, e + 1)

\* round-to-nearest, ties-to-even, of the non-negative rational num/den (in
\* units) with sign neg; a result above the largest finite value is infinite
Round(neg, num, den) ==
    LET e == ExpOf(num, den, 0)
    IN  IF e > MaxExp THEN Inf(neg)
        ELSE LET s == den * Pow2(e)
                 m == num \div s
                 r == num % s
                 up == (2 * r > s) \/ (2 * r = s /\ m % 2 = 1)
                 n == (IF up THEN m + 1 ELSE m) * Pow2(e)
             IN  IF n > MaxN THEN Inf(neg) ELSE Num(neg, n)

\* unary minus
Fneg(a) == IF IsNaN(a) THEN NaN ELSE [a EXCEPT !.neg = ~a.neg]

\* a * b
Fmul(a, b) ==
    IF IsNaN(a) \/ IsNaN(b) THEN NaN
    ELSE IF (IsInf(a) /\ IsZero(b)) \/ (IsZero(a) /\ IsInf(b)) THEN NaN
    ELSE IF IsInf(a) \/ IsInf(b) THEN Inf(a.neg # b.neg)
    ELSE Round(a.neg # b.neg, a.n * b.n, Unit)

\* the signed count of units of a finite value
Signed(a) == IF a.neg THEN 0 - a.n ELSE a.n

\* a + b
Fadd(a, b) ==
    IF IsNaN(a) \/ IsNaN(b) THEN NaN
    ELSE IF IsInf(a) /\ IsInf(b) THEN (IF a.neg = b.neg THEN a ELSE NaN)
    ELSE IF IsInf(a) THEN a
    ELSE IF IsInf(b) THEN b
    ELSE LET t == Signed(a) + Signed(b)
         IN  IF t = 0 THEN Num(a.neg /\ b.neg, 0)
             ELSE IF t < 0 THEN Round(TRUE, 0 - t, 1)
             ELSE Round(FALSE, t, 1)

\* a - b
Fsub(a, b) == Fadd(a, Fneg(b))

\* a / b
Fdiv(a, b) ==
    IF IsNaN(a) \/ IsNaN(b) THEN NaN
    ELSE IF (IsInf(a) /\ IsInf(b)) \/ (IsZero(a) /\ IsZero(b)) THEN NaN
    ELSE IF IsInf(a) \/ IsZero(b) THEN Inf(a.neg # b.neg)
    ELSE IF IsInf(b) THEN Num(a.neg # b.neg, 0)
    ELSE Round(a.neg # b.neg, a.n * Unit, b.n)

\* the largest m in lo..hi with (m * s)^2 <= x  (lo satisfies it)
RECURSIVE RootFloor(_, _, _, _)
RootFloor(x, s, lo, hi) ==
    IF lo = hi THEN lo
    ELSE LET mid == (lo + hi + 1) \div 2
         IN  IF (mid * s) * (mid * s) <= x THEN RootFloor(x, s, mid, hi)
             ELSE RootFloor(x, s, lo, mid - 1)

\* the binade of sqrt(x): the least e with x < 4^(Prec+e)
RECURSIVE RootExp(_, _)
RootExp(x, e) ==
    IF x < Pow2(Prec + e) * Pow2(Prec + e) THEN e ELSE RootExp(x, e + 1)

\* a.sqrt(): correctly rounded
Fsqrt(a) ==
    IF IsNaN(a) THEN NaN
    ELSE IF IsZero(a) THEN a
    ELSE IF a.neg THEN NaN
    ELSE IF IsInf(a) THEN a
    ELSE LET x == a.n * Unit
             e == RootExp(x, 0)
             s == Pow2(e)
             m == RootFloor(x, s, 0, Pow2(Prec))
             mid == (2 * m + 1) * s
             up == (4 * x > mid * mid) \/ (4 * x = mid * mid /\ m % 2 = 1)
         IN  Num(FALSE, (IF up THEN m + 1 ELSE m) * s)

\* f64's PartialOrd::partial_cmp: "None" when either side is NaN
PartialCmp(a, b) ==
    IF IsNaN(a) \/ IsNaN(b) THEN "None"
    ELSE LET va == IF IsInf(a) THEN (IF a.neg THEN 0 - (MaxN + 1) ELSE MaxN + 1)
                   ELSE Signed(a)
             vb == IF IsInf(b) THEN (IF b.neg THEN 0 - (MaxN + 1) ELSE MaxN + 1)
                   ELSE Signed(b)
         IN  IF va < vb THEN "Less" ELSE IF va > vb THEN "Greater" ELSE "Equal"

\* f64's == (NaN equals nothing, the two zeros are equal)
Feq(a, b) == PartialCmp(a, b) = "Equal"
Fle(a, b) == PartialCmp(a, b) \in {"Less", "Equal"}
Flt(a, b) == PartialCmp(a, b) = "Less"

\* the f64 nearest to the rational num/den (a literal of the source)
Lit(num, den) ==
    IF num < 0 THEN Round(TRUE, (0 - num) * Unit, den) ELSE Round(FALSE, num * Unit, den)

\* ------------------------------------------------------------------ Vector3D
\* struct Vector3D { x: f64, y: f64, z: f64 }
Vector3D(x, y, z) == [x |-> x, y |-> y, z |-> z]

\* Vector3D::new
new(x, y, z) == Vector3D(x, y, z)

\* Vector3D::magnitude: (x*x + y*y + z*z).sqrt()
magnitude(self) ==
    Fsqrt(Fadd(Fadd(Fmul(self.x, self.x), Fmul(self.y, self.y)), Fmul(self.z, self.z)))

\* Result<Vector3D, String>
Ok(v) == [tag |-> "Ok", val |-> v]
Err(msg) == [tag |-> "Err", val |-> msg]

\* normalize without the zero-magnitude test
normalizeUnchecked(self) ==
    LET mag == magnitude(self)
    IN  Ok(Vector3D(Fdiv(self.x, mag), Fdiv(self.y, mag), Fdiv(self.z, mag)))

\* Vector3D::normalize
normalize(self) ==
    LET mag == magnitude(self)
    IN  IF Feq(mag, Zero) THEN Err("Cannot normalize zero vector")
        ELSE Ok(Vector3D(Fdiv(self.x, mag), Fdiv(self.y, mag), Fdiv(self.z, mag)))

\* dot_product with other.y where other.z belongs
dotProductSlip(self, other) ==
    Fadd(Fadd(Fmul(self.x, other.x), Fmul(self.y, other.y)), Fmul(self.z, other.y))

\* Vector3D::dot_product
dot_product(self, other) ==
    Fadd(Fadd(Fmul(self.x, other.x), Fmul(self.y, other.y)), Fmul(self.z, other.z))

\* cross_product with other.y where other.z belongs in the y component
crossProductSlip(self, other) ==
    Vector3D(Fsub(Fmul(self.y, other.z), Fmul(self.z, other.y)),
             Fsub(Fmul(self.z, other.x), Fmul(self.x, other.y)),
             Fsub(Fmul(self.x, other.y), Fmul(self.y, other.x)))

\* Vector3D::cross_product
cross_product(self, other) ==
    Vector3D(Fsub(Fmul(self.y, other.z), Fmul(self.z, other.y)),
             Fsub(Fmul(self.z, other.x), Fmul(self.x, other.z)),
             Fsub(Fmul(self.x, other.y), Fmul(self.y, other.x)))

\* "{:.2}" of one f64: the sign and the hundredths, rounded half to even;
\* "NaN" and "inf" print as words
Fixed2(a) ==
    IF IsNaN(a) THEN [text |-> "NaN", neg |-> FALSE, cents |-> 0]
    ELSE IF IsInf(a) THEN [text |-> "inf", neg |-> a.neg, cents |-> 0]
    ELSE LET num == a.n * 100
             c == num \div Unit
             r == num % Unit
             up == (2 * r > Unit) \/ (2 * r = Unit /\ c % 2 = 1)
         IN  [text |-> "digits", neg |-> a.neg, cents |-> IF up THEN c + 1 ELSE c]

\* impl fmt::Display for Vector3D: "({:.2}, {:.2}, {:.2})"
fmt(self) == <<Fixed2(self.x), Fixed2(self.y), Fixed2(self.z)>>

\* Option<&Vector3D>, the reference being the index of the element; Panic is
\* the unwinding of Option::unwrap on None
None == [tag |-> "None", idx |-> 0]
Some(i) == [tag |-> "Some", idx |-> i]
Panic == [tag |-> "Panic", idx |-> 0]

\* the closure of max_by: a.magnitude().partial_cmp(&b.magnitude()).unwrap()
compare(a, b) == PartialCmp(magnitude(a), magnitude(b))

\* a fold that keeps the accumulator on Equal as well (the first maximum)
RECURSIVE MaxByFoldKeepsFirst(_, _, _)
MaxByFoldKeepsFirst(vs, acc, k) ==
    IF k > Len(vs) THEN Some(acc)
    ELSE LET c == compare(vs[acc], vs[k])
         IN  IF c = "None" THEN Panic
             ELSE IF c = "Less" THEN MaxByFoldKeepsFirst(vs, k, k + 1)
             ELSE MaxByFoldKeepsFirst(vs, acc, k + 1)

\* Iterator::max_by's fold over the rest of the slice: the accumulator is
\* kept only when it compares Greater; the unwrap panics on "None"
RECURSIVE MaxByFold(_, _, _)
MaxByFold(vs, acc, k) ==
    IF k > Len(vs) THEN Some(acc)
    ELSE LET c == compare(vs[acc], vs[k])
         IN  IF c = "None" THEN Panic
             ELSE IF c = "Greater" THEN MaxByFold(vs, acc, k + 1)
             ELSE MaxByFold(vs, k, k + 1)

\* find_longest_vector
find_longest_vector(vs) == IF Len(vs) = 0 THEN None ELSE MaxByFold(vs, 1, 2)

\* scale that leaves z alone
scaleDropsZ(self, factor) ==
    Vector3D(Fmul(self.x, factor), Fmul(self.y, factor), self.z)

\* Transformable::scale
scale(self, factor) ==
    Vector3D(Fmul(self.x, factor), Fmul(self.y, factor), Fmul(self.z, factor))

\* Transformable::translate
translate(self, off) ==
    Vector3D(Fadd(self.x, off.x), Fadd(self.y, off.y), Fadd(self.z, off.z))

\* ------------------------------------------------------------------ state
VARIABLES
    vectors,   \* the caller's Vec<Vector3D>
    offset,    \* the caller's offset vector (main's `offset`)
    last,      \* the last call made: the operation, its operands and result
    made,      \* the vectors as constructed
    touched,   \* indices of the vectors scale or translate was called on
    nMut,      \* number of scale/translate calls made
    crashed    \* the thread has panicked

vars == <<vectors, offset, last, made, touched, nMut, crashed>>

NoCall == [op |-> "none", i |-> 0, j |-> 0, f |-> Zero, pre |-> <<>>,
           sc |-> <<>>, res |-> <<>>]
Call(op, i, j, res) == [NoCall EXCEPT !.op = op, !.i = i, !.j = j, !.res = res]

Idx == 1..Len(vectors)

\* ------------------------------------------------------------------ calls
\* vectors[i].magnitude()
Magnitude(i) ==
    /\ ~crashed
    /\ last' = Call("magnitude", i, 0, magnitude(vectors[i]))
    /\ UNCHANGED <<vectors, offset, made, touched, nMut, crashed>>

\* a normalize that overwrites its receiver with the unit vector
NormalizeInPlace(i) ==
    /\ ~crashed
    /\ LET r == normalize(vectors[i])
       IN  /\ last' = Call("normalize", i, 0, r)
           /\ vectors' = IF r.tag = "Ok" THEN [vectors EXCEPT ![i] = r.val] ELSE vectors
    /\ UNCHANGED <<offset, made, touched, nMut, crashed>>

\* vectors[i].normalize()
Normalize(i) ==
    /\ ~crashed
    /\ last' = Call("normalize", i, 0, normalize(vectors[i]))
    /\ UNCHANGED <<vectors, offset, made, touched, nMut, crashed>>

\* vectors[i].dot_product(&vectors[j])
DotProduct(i, j) ==
    /\ ~crashed
    /\ last' = Call("dot", i, j, dot_product(vectors[i], vectors[j]))
    /\ UNCHANGED <<vectors, offset, made, touched, nMut, crashed>>

\* vectors[i].cross_product(&vectors[j])
CrossProduct(i, j) ==
    /\ ~crashed
    /\ last' = Call("cross", i, j, cross_product(vectors[i], vectors[j]))
    /\ UNCHANGED <<vectors, offset, made, touched, nMut, crashed>>

\* format!("{}", vectors[i])
Format(i) ==
    /\ ~crashed
    /\ last' = Call("format", i, 0, fmt(vectors[i]))
    /\ UNCHANGED <<vectors, offset, made, touched, nMut, crashed>>

\* find_longest_vector(&vectors)
FindLongest ==
    /\ ~crashed
    /\ LET r == find_longest_vector(vectors)
       IN  /\ last' = Call("find_longest", 0, 0, r)
           /\ crashed' = (r = Panic)
    /\ UNCHANGED <<vectors, offset, made, touched, nMut>>

\* vectors[i].scale(f)
Scale(i, f) ==
    /\ ~crashed
    /\ nMut < MaxMut
    /\ vectors' = [vectors EXCEPT ![i] = scale(@, f)]
    /\ last' = [Call("scale", i, 0, <<>>) EXCEPT !.f = f, !.pre = vectors[i]]
    /\ touched' = touched \cup {i}
    /\ nMut' = nMut + 1
    /\ UNCHANGED <<offset, made, crashed>>

\* vectors[i].translate(&offset); sc remembers a scale of the same vector
\* made by the call just before
Translate(i) ==
    /\ ~crashed
    /\ nMut < MaxMut
    /\ vectors' = [vectors EXCEPT ![i] = translate(@, offset)]
    /\ last' = [Call("translate", i, 0, <<>>) EXCEPT
                    !.pre = vectors[i],
                    !.sc = IF last.op = "scale" /\ last.i = i
                           THEN <<last.f, last.pre>> ELSE <<>>]
    /\ touched' = touched \cup {i}
    /\ nMut' = nMut + 1
    /\ UNCHANGED <<offset, made, crashed>>

\* ------------------------------------------------------------------ inputs
\* literals of main
F0 == Zero
F1 == Lit(1, 1)
F2 == Lit(2, 1)
F3 == Lit(3, 1)
F4 == Lit(4, 1)
F5 == Lit(5, 1)
F6 == Lit(6, 1)
\* f64::MIN_POSITIVE's subnormal neighbour and f64::MAX
Tiny == Num(FALSE, 1)
Huge == Num(FALSE, MaxN)

V(x, y, z) == new(x, y, z)

RECURSIVE SeqsUpTo(_, _)
SeqsUpTo(S, n) ==
    IF n = 0 THEN {<<>>}
    ELSE LET shorter == SeqsUpTo(S, n - 1)
         IN  shorter \cup {Append(s, v) : s \in {t \in shorter : Len(t) = n - 1}, v \in S}

Start(vs, off) ==
    /\ vectors = vs
    /\ offset = off
    /\ last = NoCall
    /\ made = vs
    /\ touched = {}
    /\ nMut = 0
    /\ crashed = FALSE

\* --- the caller of main's shape: a few collections, every operation
ClientLists ==
    { <<V(F1, F2, F3), V(F4, F5, F6), V(F0, F0, F0)>>,
      <<V(NaN, F0, F1), V(Huge, Fneg(F2), Tiny)>>,
      <<V(Fneg(F0), Inf(FALSE), F3)>>,
      <<>> }
ClientOffsets == {V(F1, F1, F1), V(Fneg(Tiny), Huge, Inf(TRUE))}
Factors == {F2, F0, Fneg(Huge)}

Init == \E vs \in ClientLists, off \in ClientOffsets : Start(vs, off)

Next ==
    \/ \E i \in Idx : Magnitude(i)
    \/ \E i \in Idx : Normalize(i)
    \/ \E i \in Idx, j \in Idx : DotProduct(i, j)
    \/ \E i \in Idx, j \in Idx : CrossProduct(i, j)
    \/ \E i \in Idx : Format(i)
    \/ FindLongest
    \/ \E i \in Idx, f \in Factors : Scale(i, f)
    \/ \E i \in Idx : Translate(i)

Spec == Init /\ [][Next]_vars

\* --- find_longest_vector on every collection of up to MaxLen vectors
LongestPool ==
    { V(F1, F2, F3), V(F4, F5, F6), V(F0, F0, F0), V(F1, F0, F0), V(F0, F1, F0),
      V(Tiny, F0, Fneg(F0)), V(NaN, F0, F0) }

InitLongest == \E vs \in SeqsUpTo(LongestPool, MaxLen) : Start(vs, V(F1, F1, F1))
NextLongest == FindLongest
SpecLongest == InitLongest /\ [][NextLongest]_vars

\* --- magnitude and normalize on every vector over NormComps
NormComps ==
    { F0, Fneg(F0), Tiny, Fneg(Tiny), F1, Fneg(F3), Huge, Inf(FALSE), Inf(TRUE), NaN }

InitNorm ==
    \E x \in NormComps, y \in NormComps, z \in NormComps :
        Start(<<V(x, y, z)>>, V(F1, F1, F1))
NextNorm ==
    \/ \E i \in Idx : Magnitude(i)
    \/ \E i \in Idx : Normalize(i)
SpecNorm == InitNorm /\ [][NextNorm]_vars

\* --- dot_product and cross_product on every pair of vectors of AlgVecs
AlgComps == {F0, F1, Fneg(F3), F5}
AlgVecs ==
    {V(x, y, z) : x \in AlgComps, y \in AlgComps, z \in AlgComps}
        \cup { V(NaN, F1, F0), V(Huge, Huge, Fneg(F0)), V(Inf(TRUE), F0, F1),
               V(Tiny, Fneg(Tiny), F2) }

InitAlg == \E v \in AlgVecs, w \in AlgVecs : Start(<<v, w>>, V(F1, F1, F1))
NextAlg ==
    \/ \E i \in Idx, j \in Idx : DotProduct(i, j)
    \/ \E i \in Idx, j \in Idx : CrossProduct(i, j)
SpecAlg == InitAlg /\ [][NextAlg]_vars

\* ------------------------------------------------------------------ claims
\* equality of two f64 as values: f64's ==, with NaN taken equal to NaN
SameValue(a, b) == (IsNaN(a) /\ IsNaN(b)) \/ Feq(a, b)
SameVec(u, v) == SameValue(u.x, v.x) /\ SameValue(u.y, v.y) /\ SameValue(u.z, v.z)
Neg(v) == Vector3D(Fneg(v.x), Fneg(v.y), Fneg(v.z))
AllZero(v) == IsZero(v.x) /\ IsZero(v.y) /\ IsZero(v.z)

\* indices of the elements whose magnitude is >= every element's magnitude
Longest(vs) ==
    {i \in 1..Len(vs) : \A j \in 1..Len(vs) : Fle(magnitude(vs[j]), magnitude(vs[i]))}
Lowest(S) == CHOOSE i \in S : \A j \in S : i <= j
Highest(S) == CHOOSE i \in S : \A j \in S : j <= i

\* C1 as stated: when two or more vectors share the maximum magnitude,
\* find_longest returns the first of them (the lowest index).
C1_FirstOfTies ==
    (last.op = "find_longest" /\ Cardinality(Longest(vectors)) >= 2)
        => last.res = Some(Lowest(Longest(vectors)))

\* C1 amended: when two or more vectors share the maximum magnitude,
\* find_longest returns the last of them (the highest index).
C1_LastOfTies ==
    (last.op = "find_longest" /\ Cardinality(Longest(vectors)) >= 2)
        => last.res = Some(Highest(Longest(vectors)))

C1_Witness ==
    /\ last.op = "find_longest"
    /\ Cardinality(Longest(vectors)) >= 2
    /\ last.res.tag = "Some"
    /\ last.res.idx > Lowest(Longest(vectors))

\* C2: normalize returns Err exactly when the magnitude is 0, which it is for
\* every zero vector; the failure is a value, not a panic; otherwise it
\* returns Ok of the components each divided by the magnitude.
C2_NormalizeResult ==
    last.op = "normalize" =>
        LET v == vectors[last.i]
            mag == magnitude(v)
        IN  /\ ~crashed
            /\ last.res.tag \in {"Ok", "Err"}
            /\ (last.res.tag = "Err") <=> Feq(mag, Zero)
            /\ AllZero(v) => last.res.tag = "Err"
            /\ last.res.tag = "Ok" =>
                   last.res.val = Vector3D(Fdiv(v.x, mag), Fdiv(v.y, mag), Fdiv(v.z, mag))

C2_Witness ==
    /\ last.op = "normalize"
    /\ last.res.tag = "Err"
    /\ AllZero(vectors[last.i])
    /\ vectors[last.i].y.neg

\* C3 as stated: every operation other than normalize completes with a
\* result for every input; none panics.
C3_TotalOps ==
    last.op # "normalize" =>
        /\ ~crashed
        /\ last.op = "find_longest" => last.res.tag \in {"None", "Some"}

\* C4 as stated: find_longest returns None iff the collection is empty, and
\* otherwise an element whose magnitude is >= that of every other element;
\* (4,5,6) for [(1,2,3),(4,5,6),(0,0,0)].
C4_LongestResult ==
    last.op = "find_longest" =>
        /\ (last.res = None) <=> (Len(vectors) = 0)
        /\ Len(vectors) > 0 =>
               /\ last.res.tag = "Some"
               /\ last.res.idx \in Idx
               /\ \A j \in Idx \ {last.res.idx} :
                      Fle(magnitude(vectors[j]), magnitude(vectors[last.res.idx]))
        /\ vectors = <<V(F1, F2, F3), V(F4, F5, F6), V(F0, F0, F0)>> => last.res = Some(2)

\* C5: scale(f) then translate(offset) on (x,y,z) leaves it equal to
\* (x*f + a, y*f + b, z*f + c); (1,2,3) scaled by 2 and translated by (1,1,1)
\* is (3,5,7).
C5_ScaleThenTranslate ==
    (last.op = "translate" /\ last.sc # <<>>) =>
        LET f == last.sc[1]
            v == last.sc[2]
        IN  /\ SameVec(vectors[last.i],
                       Vector3D(Fadd(Fmul(v.x, f), offset.x),
                                Fadd(Fmul(v.y, f), offset.y),
                                Fadd(Fmul(v.z, f), offset.z)))
            /\ (v = V(F1, F2, F3) /\ f = F2 /\ offset = V(F1, F1, F1))
                   => vectors[last.i] = V(F3, F5, Lit(7, 1))

C5_Witness ==
    /\ last.op = "translate"
    /\ last.sc = <<F2, V(F1, F2, F3)>>
    /\ offset = V(F1, F1, F1)
    /\ vectors[last.i] = V(F3, F5, Lit(7, 1))

\* C6: a vector differs from its constructed value only if scale or translate
\* was called on it; every other call leaves every vector and the offset
\* unchanged, and scale and translate change only their receiver.
C6_OnlyTouched ==
    /\ Len(vectors) = Len(made)
    /\ \A i \in Idx : vectors[i] # made[i] => i \in touched

C6_Step ==
    /\ offset' = offset
    /\ last'.op \notin {"scale", "translate"} => vectors' = vectors
    /\ last'.op \in {"scale", "translate"} =>
           /\ Len(vectors') = Len(vectors)
           /\ \A k \in Idx \ {last'.i} : vectors'[k] = vectors[k]

C6_Frame == []C6_OnlyTouched /\ [][C6_Step]_vars

C6_Witness ==
    /\ last.op = "normalize"
    /\ last.res.tag = "Ok"
    /\ \E i \in touched : vectors[i] # made[i]
    /\ \E i \in Idx : i \notin touched

\* C7: cross(v, w) equals the componentwise negation of cross(w, v);
\* cross((1,0,0),(0,1,0)) = (0,0,1) and cross((0,1,0),(1,0,0)) = (0,0,-1).
C7_AntiCommutative ==
    last.op = "cross" =>
        LET v == vectors[last.i]
            w == vectors[last.j]
        IN  /\ SameVec(last.res, Neg(cross_product(w, v)))
            /\ (v = V(F1, F0, F0) /\ w = V(F0, F1, F0)) => SameVec(last.res, V(F0, F0, F1))
            /\ (v = V(F0, F1, F0) /\ w = V(F1, F0, F0))
                   => SameVec(last.res, V(F0, F0, Fneg(F1)))

C7_Witness ==
    /\ last.op = "cross"
    /\ vectors[last.i] = V(F0, F1, F0)
    /\ vectors[last.j] = V(F1, F0, F0)
    /\ last.res.z = Fneg(F1)

\* a * b and a + b computed without rounding, overflow or underflow
MulExact(a, b) ==
    /\ IsNum(a) /\ IsNum(b)
    /\ LET r == Fmul(a, b) IN IsNum(r) /\ r.n * Unit = a.n * b.n
AddExact(a, b) ==
    /\ IsNum(a) /\ IsNum(b)
    /\ LET r == Fadd(a, b) IN IsNum(r) /\ Signed(r) = Signed(a) + Signed(b)
SubTermExact(a, b, c, d) ==
    MulExact(a, b) /\ MulExact(c, d) /\ AddExact(Fmul(a, b), Fneg(Fmul(c, d)))
CrossExact(v, w) ==
    /\ SubTermExact(v.y, w.z, v.z, w.y)
    /\ SubTermExact(v.z, w.x, v.x, w.z)
    /\ SubTermExact(v.x, w.y, v.y, w.x)
DotExact(v, w) ==
    /\ MulExact(v.x, w.x) /\ MulExact(v.y, w.y) /\ MulExact(v.z, w.z)
    /\ AddExact(Fmul(v.x, w.x), Fmul(v.y, w.y))
    /\ AddExact(Fadd(Fmul(v.x, w.x), Fmul(v.y, w.y)), Fmul(v.z, w.z))

\* C8 as stated: dot(v, cross(v, w)) = 0 and dot(w, cross(v, w)) = 0 for all
\* v and w.
C8_Orthogonal ==
    last.op = "cross" =>
        /\ Feq(dot_product(vectors[last.i], last.res), Zero)
        /\ Feq(dot_product(vectors[last.j], last.res), Zero)

\* C8 amended: dot(v, cross(v, w)) = 0 and dot(w, cross(v, w)) = 0 whenever
\* every product, difference and sum on the way is computed exactly.
C8_OrthogonalWhenExact ==
    last.op = "cross" =>
        LET v == vectors[last.i]
            w == vectors[last.j]
        IN  /\ (CrossExact(v, w) /\ DotExact(v, last.res))
                   => Feq(dot_product(v, last.res), Zero)
            /\ (CrossExact(v, w) /\ DotExact(w, last.res))
                   => Feq(dot_product(w, last.res), Zero)

C8_Witness ==
    /\ last.op = "cross"
    /\ CrossExact(vectors[last.i], vectors[last.j])
    /\ DotExact(vectors[last.i], last.res)
    /\ DotExact(vectors[last.j], last.res)
    /\ ~IsZero(last.res.x) /\ ~IsZero(last.res.y) /\ ~IsZero(last.res.z)

\* C9: dot(v, w) = dot(w, v).
C9_Commutative ==
    last.op = "dot" =>
        SameValue(last.res, dot_product(vectors[last.j], vectors[last.i]))

C9_Witness ==
    /\ last.op = "dot"
    /\ last.i # last.j
    /\ vectors[last.i] # vectors[last.j]
    /\ IsNum(last.res) /\ last.res.n > 0

\* C10 as stated: magnitude(v) >= 0, it is 0 for the zero vector, and a
\* vector with a non-zero component has a magnitude greater than 0.
C10_MagnitudeSign ==
    last.op = "magnitude" =>
        LET v == vectors[last.i]
        IN  /\ Fle(Zero, last.res)
            /\ AllZero(v) => Feq(last.res, Zero)
            /\ ~AllZero(v) => Flt(Zero, last.res)
====
